---- MODULE Spec2Model ----
(***************************************************************************)
(* Shared tract store of the bidding dashboard (state.py), the push        *)
(* notifier (realtime.py) and the server callbacks that drive them         *)
(* (callbacks/server.py), as a state machine of concurrent request         *)
(* handler threads.                                                        *)
(*                                                                         *)
(* Amounts are whole currency units.  A timestamp is the number of the     *)
(* _now() call that produced it.  An optional value is <<>> for None and   *)
(* <<v>> for v.  A name is a sequence of tokens, the token " " standing    *)
(* for a whitespace character and any other token for a run of             *)
(* non-whitespace text.                                                    *)
(***************************************************************************)
EXTENDS Integers, Sequences, FiniteSets, TLC

\* ------------------------------------------------------------------ values

None == <<>>

Some(v) == <<v>>

SP == " "

Tract1 == <<"Tract 1">>

Tract2 == <<"Tract 2">>

Tract3 == <<"Tract 3">>

Tract4 == <<"Tract 4">>

\* A user-entered value as the browser sends it: nothing, a number, or text.
RawNone == [kind |-> "none", val |-> 0]

RawNum(n) == [kind |-> "num", val |-> n]

RawText == [kind |-> "text", val |-> 0]

\* Mutant: text that is no numeral converts to zero.
PyFloat_Lenient(raw) == [ok |-> raw.kind \in {"num", "text"}, val |-> raw.val]

\* float(x): a number converts, text that is no numeral raises ValueError and
\* None raises TypeError; both are caught by the callers' except clauses.
PyFloat(raw) == [ok |-> raw.kind = "num", val |-> raw.val]

\* str.strip(): drop leading and trailing whitespace.
RECURSIVE lstrip(_)
lstrip(s) == IF s # <<>> /\ Head(s) = SP THEN lstrip(Tail(s)) ELSE s

RECURSIVE rstrip(_)
rstrip(s) ==
  IF s # <<>> /\ s[Len(s)] = SP THEN rstrip(SubSeq(s, 1, Len(s) - 1)) ELSE s

\* Mutant: only trailing whitespace is dropped.
strip_TrailingOnly(s) == rstrip(s)

strip(s) == rstrip(lstrip(s))

unit_multiplier(unit) ==
  LET u == IF unit = None THEN "1" ELSE unit[1]
  IN  CASE u = "1" -> 1
        [] u = "K" -> 1000
        [] u = "MM" -> 1000000
        [] OTHER -> 1

\* datetime.isoformat(): the timestamp rendered as text.
isoformat(ts) == <<"iso", ts>>

\* ------------------------------------------------------------- seed state

SeedRecord(bid, budget, ts) ==
  [current_bid |-> bid, max_budget |-> budget, approved_over_budget |-> FALSE,
   requested_budget |-> None, requested_unit |-> None, high_bidder |-> FALSE,
   last_updated |-> ts]

INITIAL_STATE ==
  (Tract1 :> SeedRecord(120000, 150000, 1)) @@
  (Tract2 :> SeedRecord(210500, 200000, 2)) @@
  (Tract3 :> SeedRecord(95250, 110000, 3))

INITIAL_KEYS == <<Tract1, Tract2, Tract3>>

\* The three _now() calls that stamp the seed records at import time.
SeedClock == 3

\* One record of the read model: primitive values only.
RenderRecord(data) ==
  [current_bid |-> data.current_bid, max_budget |-> data.max_budget,
   approved_over_budget |-> data.approved_over_budget,
   requested_budget |-> data.requested_budget,
   requested_unit |-> data.requested_unit,
   high_bidder |-> data.high_bidder,
   last_updated |-> isoformat(data.last_updated)]

\* What snapshot_state() returns for a store holding (keys, tracts).
Render(keys, tracts) ==
  [keys |-> keys, data |-> [n \in DOMAIN tracts |-> RenderRecord(tracts[n])]]

EmptySnapshot == [keys |-> <<>>, data |-> <<>>]

\* ------------------------------------------------------------------ state

\* The handler threads of the server process.
Threads == {1, 2}

Free == 0

\* How many handler invocations the server receives.
MaxCalls == 2

VARIABLES
  TRACTS,          \* state.TRACTS: tract name -> record
  TRACT_KEYS,      \* insertion order of the keys of state.TRACTS
  STATE_LOCK,      \* the thread holding state.STATE_LOCK, or Free
  clock,           \* number of _now() calls made so far
  pc,              \* per thread: where it is in its handler
  frame,           \* per thread: the handler's and callee's locals
  client_snapshot, \* the browser's snapshot-store data
  committed,       \* the store as the last completed critical section left it
  version,         \* number of completed mutating critical sections
  calls            \* number of handler invocations so far

vars ==
  <<TRACTS, TRACT_KEYS, STATE_LOCK, clock, pc, frame, client_snapshot,
    committed, version, calls>>

NoFrame ==
  [handler |-> "none", stage |-> "none", fn |-> "none", k |-> 0,
   i |-> 0, trig |-> "none", early |-> FALSE, tract |-> <<>>, name |-> <<>>, amount |-> 0, unit |-> None,
   is_high |-> FALSE, new_budget |-> None, rows |-> <<>>, bid |-> 0,
   budget |-> 0, snap |-> EmptySnapshot, created |-> FALSE,
   rejected |-> FALSE, raised |-> FALSE, mutated |-> FALSE, mutVer |-> 0,
   bcasts |-> 0, emits |-> 0, emit_failed |-> FALSE, snapVer |-> 0,
   unparsable |-> FALSE, logged |-> "none"]

Init ==
  /\ TRACTS = INITIAL_STATE
  /\ TRACT_KEYS = INITIAL_KEYS
  /\ STATE_LOCK = Free
  /\ clock = SeedClock
  /\ pc = [t \in Threads |-> "idle"]
  /\ frame = [t \in Threads |-> NoFrame]
  /\ client_snapshot = Render(INITIAL_KEYS, INITIAL_STATE)
  /\ committed = [keys |-> INITIAL_KEYS, tracts |-> INITIAL_STATE,
                  clock |-> SeedClock]
  /\ version = 0
  /\ calls = 0

Mutators ==
  {"update_bid", "approve_over_budget", "request_budget_increase",
   "set_high_bidder", "reset_state", "apply_table_updates", "add_tract"}

\* ------------------------------------------------------ store operations

\* Mutant: an assigned key is taken out and put at the end.
SetItemKeys_MoveToEnd(keys, name) ==
  Append(SelectSeq(keys, LAMBDA k : k # name), name)

\* `TRACTS[name] = record`: a new key goes to the end, an old one keeps its place.
SetItemKeys(keys, name) ==
  IF \E j \in 1..Len(keys) : keys[j] = name THEN keys ELSE Append(keys, name)

SetItem(tracts, name, record) ==
  [n \in DOMAIN tracts \cup {name} |-> IF n = name THEN record ELSE tracts[n]]

\* Mutant: the statement writes to the first record of the mapping.
Assign_FirstRecord(t, field, value) ==
  /\ TRACTS' = [TRACTS EXCEPT ![TRACT_KEYS[1]][field] =
                  IF field = "last_updated" THEN clock + 1 ELSE value]
  /\ clock' = IF field = "last_updated" THEN clock + 1 ELSE clock
  /\ UNCHANGED TRACT_KEYS

\* One `TRACTS[tract][field] = value` statement; last_updated takes _now().
Assign(t, field, value) ==
  /\ TRACTS' = [TRACTS EXCEPT ![frame[t].tract][field] =
                  IF field = "last_updated" THEN clock + 1 ELSE value]
  /\ clock' = IF field = "last_updated" THEN clock + 1 ELSE clock
  /\ UNCHANGED TRACT_KEYS

\* Mutant: an unknown tract gets a record of its own instead of a warning.
RunAssignments_Create(t, stmts) ==
  LET k == frame[t].k IN
  IF k = 0
  THEN /\ frame' = [frame EXCEPT ![t].k = 1]
       /\ pc' = pc
       /\ TRACTS' = IF frame[t].tract \in DOMAIN TRACTS THEN TRACTS
                     ELSE SetItem(TRACTS, frame[t].tract, SeedRecord(0, 0, 0))
       /\ TRACT_KEYS' = SetItemKeys(TRACT_KEYS, frame[t].tract)
       /\ UNCHANGED clock
  ELSE /\ Assign(t, stmts[k][1], stmts[k][2])
       /\ frame' = [frame EXCEPT ![t].k = k + 1]
       /\ pc' = [pc EXCEPT ![t] = IF k = Len(stmts) THEN "unlock" ELSE "body"]

\* logger.info() and logger.warning() of the "auction" logger, called by the
\* store functions before they leave `with STATE_LOCK`: the record goes to
\* the handlers (a stream and a file) in the calling thread.  frame.logged is
\* the level of the last record written in the critical section.
logger_call(level) == level

\* The assignment statements of a body, run one per step from frame.k = 1;
\* frame.k = 0 is the membership test that guards them; the function's
\* logger call is part of the step that ends the body.
RunAssignments(t, stmts) ==
  LET k == frame[t].k IN
  IF k = 0
  THEN /\ IF frame[t].tract \in DOMAIN TRACTS
          THEN /\ frame' = [frame EXCEPT ![t].k = 1]
               /\ pc' = pc
          ELSE /\ frame' = [frame EXCEPT ![t].early = TRUE,
                                         ![t].logged = logger_call("WARNING")]
               /\ pc' = [pc EXCEPT ![t] = "unlock"]
       /\ UNCHANGED <<TRACTS, TRACT_KEYS, clock>>
  ELSE /\ Assign(t, stmts[k][1], stmts[k][2])
       /\ frame' = [frame EXCEPT
            ![t].k = k + 1,
            ![t].logged = IF k = Len(stmts) THEN logger_call("INFO") ELSE @]
       /\ pc' = [pc EXCEPT ![t] = IF k = Len(stmts) THEN "unlock" ELSE "body"]

\* Mutant: the high-bidder flag survives a new bid.
update_bid_stmts_KeepHigh(f) ==
  << <<"current_bid", f.amount>>, <<"last_updated", 0>>,
     <<"approved_over_budget", FALSE>>, <<"requested_budget", None>>,
     <<"requested_unit", None>> >>

update_bid_stmts(f) ==
  << <<"current_bid", f.amount>>, <<"last_updated", 0>>,
     <<"approved_over_budget", FALSE>>, <<"requested_budget", None>>,
     <<"requested_unit", None>>, <<"high_bidder", FALSE>> >>

update_bid(t) ==
  /\ pc[t] = "body"
  /\ frame[t].fn = "update_bid"
  /\ RunAssignments(t, update_bid_stmts(frame[t]))
  /\ UNCHANGED <<STATE_LOCK, client_snapshot, committed, version, calls>>

\* Mutant: the unit of the pending request is left behind.
approve_over_budget_stmts_KeepUnit(f) ==
  (IF f.new_budget # None THEN << <<"max_budget", f.new_budget[1]>> >> ELSE <<>>)
  \o << <<"approved_over_budget", TRUE>>, <<"requested_budget", None>> >>

approve_over_budget_stmts(f) ==
  (IF f.new_budget # None THEN << <<"max_budget", f.new_budget[1]>> >> ELSE <<>>)
  \o << <<"approved_over_budget", TRUE>>, <<"requested_budget", None>>,
        <<"requested_unit", None>> >>

approve_over_budget(t) ==
  /\ pc[t] = "body"
  /\ frame[t].fn = "approve_over_budget"
  /\ RunAssignments(t, approve_over_budget_stmts(frame[t]))
  /\ UNCHANGED <<STATE_LOCK, client_snapshot, committed, version, calls>>

\* Mutant: an earlier approval survives a new request.
request_budget_increase_stmts_KeepApproval(f) ==
  << <<"requested_budget", Some(f.amount)>>, <<"requested_unit", f.unit>> >>

request_budget_increase_stmts(f) ==
  << <<"requested_budget", Some(f.amount)>>, <<"requested_unit", f.unit>>,
     <<"approved_over_budget", FALSE>> >>

request_budget_increase(t) ==
  /\ pc[t] = "body"
  /\ frame[t].fn = "request_budget_increase"
  /\ RunAssignments(t, request_budget_increase_stmts(frame[t]))
  /\ UNCHANGED <<STATE_LOCK, client_snapshot, committed, version, calls>>

\* Mutant: toggling the flag counts as an update of the record.
set_high_bidder_stmts_Stamp(f) ==
  << <<"high_bidder", f.is_high>>, <<"last_updated", 0>> >>

set_high_bidder_stmts(f) == << <<"high_bidder", f.is_high>> >>

set_high_bidder(t) ==
  /\ pc[t] = "body"
  /\ frame[t].fn = "set_high_bidder"
  /\ RunAssignments(t, set_high_bidder_stmts(frame[t]))
  /\ UNCHANGED <<STATE_LOCK, client_snapshot, committed, version, calls>>

\* Mutant: reset stamps the restored record with the time of the reset.
reset_record_Restamp(tract) ==
  [INITIAL_STATE[tract] EXCEPT !.last_updated = clock + 1]

\* Mutant: reset keeps the approval the record had.
reset_record_KeepApproval(tract) ==
  [INITIAL_STATE[tract] EXCEPT
     !.approved_over_budget = TRACTS[tract].approved_over_budget]

\* What reset_state() stores for one seed tract: data.copy().
reset_record(tract) == INITIAL_STATE[tract]

\* Mutant: the loop of reset_state() runs with the lock given up.
reset_state_Unlocked(t) ==
  /\ pc[t] = "body"
  /\ frame[t].fn = "reset_state"
  /\ LET k == frame[t].k + 1
         tract == INITIAL_KEYS[k]
     IN  /\ TRACTS' = SetItem(TRACTS, tract, reset_record(tract))
         /\ TRACT_KEYS' = SetItemKeys(TRACT_KEYS, tract)
         /\ frame' = [frame EXCEPT ![t].k = k]
         /\ pc' = [pc EXCEPT ![t] =
                     IF k = Len(INITIAL_KEYS) THEN "unlock" ELSE "body"]
  /\ STATE_LOCK' = Free
  /\ UNCHANGED <<clock, client_snapshot, committed, version, calls>>

\* One iteration of `for tract, data in INITIAL_STATE.items()` per step.
reset_state(t) ==
  /\ pc[t] = "body"
  /\ frame[t].fn = "reset_state"
  /\ LET k == frame[t].k + 1
         tract == INITIAL_KEYS[k]
     IN  /\ TRACTS' = SetItem(TRACTS, tract, reset_record(tract))
         /\ TRACT_KEYS' = SetItemKeys(TRACT_KEYS, tract)
         /\ frame' = [frame EXCEPT ![t].k = k]
         /\ pc' = [pc EXCEPT ![t] =
                     IF k = Len(INITIAL_KEYS) THEN "unlock" ELSE "body"]
  /\ UNCHANGED <<STATE_LOCK, clock, client_snapshot, committed, version,
                 calls>>

\* A cell of an admin table row may be absent from the row's dict.
RawMissing == [kind |-> "missing", val |-> 0]

\* float(row.get(field, default)) of apply_table_updates.
RowFloat(raw, default) ==
  IF raw.kind = "missing" THEN [ok |-> TRUE, val |-> default] ELSE PyFloat(raw)

\* `if not name or name not in TRACTS: continue`, then the two float() calls.
RowApplies(tracts, row) ==
  /\ row.tract # <<>>
  /\ row.tract \in DOMAIN tracts
  /\ RowFloat(row.current_bid, tracts[row.tract].current_bid).ok
  /\ RowFloat(row.max_budget, tracts[row.tract].max_budget).ok

\* Mutant: a row that is passed over ends the loop.
skip_row_Break(f) == Len(f.rows) + 1

\* `continue`: the loop goes on with the row after the one passed over.
skip_row(f) == f.i + 1

\* Mutant: a bulk row leaves the unit of a pending request behind.
apply_table_updates_stmts_KeepUnit(f) ==
  << <<"current_bid", f.bid>>, <<"max_budget", f.budget>>, <<"last_updated", 0>>,
     <<"approved_over_budget", FALSE>>, <<"requested_budget", None>>,
     <<"high_bidder", FALSE>> >>

apply_table_updates_stmts(f) ==
  << <<"current_bid", f.bid>>, <<"max_budget", f.budget>>, <<"last_updated", 0>>,
     <<"approved_over_budget", FALSE>>, <<"requested_budget", None>>,
     <<"requested_unit", None>>, <<"high_bidder", FALSE>> >>

\* frame.i is the row being processed; frame.k = 0 is the row's tests and
\* conversions, frame.k >= 1 its assignments.
apply_table_updates(t) ==
  /\ pc[t] = "body"
  /\ frame[t].fn = "apply_table_updates"
  /\ LET f == frame[t]
         rows == f.rows
         stmts == apply_table_updates_stmts(f)
     IN  IF f.i > Len(rows)
         THEN /\ pc' = [pc EXCEPT ![t] = "unlock"]
              /\ UNCHANGED <<TRACTS, TRACT_KEYS, clock, frame>>
         ELSE IF f.k = 0
         THEN /\ IF RowApplies(TRACTS, rows[f.i])
                 THEN LET row == rows[f.i]
                          cur == TRACTS[row.tract]
                      IN frame' = [frame EXCEPT
                           ![t].tract = row.tract,
                           ![t].bid = RowFloat(row.current_bid, cur.current_bid).val,
                           ![t].budget = RowFloat(row.max_budget, cur.max_budget).val,
                           ![t].k = 1]
                 ELSE frame' = [frame EXCEPT
                           ![t].i = skip_row(f),
                           ![t].logged =
                             IF /\ rows[f.i].tract # <<>>
                                /\ rows[f.i].tract \in DOMAIN TRACTS
                             THEN logger_call("WARNING") ELSE @]
              /\ UNCHANGED <<TRACTS, TRACT_KEYS, clock, pc>>
         ELSE /\ Assign(t, stmts[f.k][1], stmts[f.k][2])
              /\ frame' = [frame EXCEPT
                   ![t].k = IF f.k = Len(stmts) THEN 0 ELSE f.k + 1,
                   ![t].i = IF f.k = Len(stmts) THEN f.i + 1 ELSE f.i,
                   ![t].logged =
                     IF f.k = Len(stmts) THEN logger_call("INFO") ELSE @]
              /\ pc' = pc
  /\ UNCHANGED <<STATE_LOCK, client_snapshot, committed, version, calls>>

\* Mutant: bid and budget change places.
add_tract_record_Swapped(f, now) ==
  [current_bid |-> f.budget, max_budget |-> f.bid,
   approved_over_budget |-> FALSE, requested_budget |-> None,
   requested_unit |-> None, high_bidder |-> FALSE, last_updated |-> now]

\* The record add_tract() inserts.
add_tract_record(f, now) ==
  [current_bid |-> f.bid, max_budget |-> f.budget,
   approved_over_budget |-> FALSE, requested_budget |-> None,
   requested_unit |-> None, high_bidder |-> FALSE, last_updated |-> now]

\* The locked part of add_tract(); frame.tract is the stripped, non-empty name.
add_tract(t) ==
  /\ pc[t] = "body"
  /\ frame[t].fn = "add_tract"
  /\ LET f == frame[t] IN
     IF f.k = 0
     THEN /\ IF f.tract \in DOMAIN TRACTS
             THEN /\ frame' = [frame EXCEPT ![t].early = TRUE, ![t].created = FALSE]
                  /\ pc' = [pc EXCEPT ![t] = "unlock"]
             ELSE /\ frame' = [frame EXCEPT ![t].k = 1]
                  /\ pc' = pc
          /\ UNCHANGED <<TRACTS, TRACT_KEYS, clock>>
     ELSE /\ TRACTS' = SetItem(TRACTS, f.tract, add_tract_record(f, clock + 1))
          /\ TRACT_KEYS' = SetItemKeys(TRACT_KEYS, f.tract)
          /\ clock' = clock + 1
          /\ frame' = [frame EXCEPT ![t].created = TRUE,
                                    ![t].logged = logger_call("INFO")]
          /\ pc' = [pc EXCEPT ![t] = "unlock"]
  /\ UNCHANGED <<STATE_LOCK, client_snapshot, committed, version, calls>>

\* Mutant: reading a record counts as an update of it.
snapshot_state_Stamp(t) ==
  /\ pc[t] = "body"
  /\ frame[t].fn = "snapshot_state"
  /\ LET k == frame[t].k + 1
         tract == TRACT_KEYS[k]
         snap == frame[t].snap
     IN  /\ frame' = [frame EXCEPT
              ![t].k = k,
              ![t].snap = [keys |-> Append(snap.keys, tract),
                           data |-> SetItem(snap.data, tract,
                                            RenderRecord(TRACTS[tract]))]]
         /\ pc' = [pc EXCEPT ![t] =
                     IF k >= Len(TRACT_KEYS) THEN "unlock" ELSE "body"]
         /\ TRACTS' = [TRACTS EXCEPT ![tract].last_updated = clock + 1]
         /\ clock' = clock + 1
  /\ UNCHANGED <<TRACT_KEYS, STATE_LOCK, client_snapshot, committed, version,
                 calls>>

\* The dict comprehension of snapshot_state(): one record of TRACTS.items()
\* is copied per step.
snapshot_state(t) ==
  /\ pc[t] = "body"
  /\ frame[t].fn = "snapshot_state"
  /\ LET k == frame[t].k + 1
         tract == TRACT_KEYS[k]
         snap == frame[t].snap
     IN  /\ frame' = [frame EXCEPT
              ![t].k = k,
              ![t].snap = [keys |-> Append(snap.keys, tract),
                           data |-> SetItem(snap.data, tract,
                                            RenderRecord(TRACTS[tract]))]]
         /\ pc' = [pc EXCEPT ![t] =
                     IF k >= Len(TRACT_KEYS) THEN "unlock" ELSE "body"]
  /\ UNCHANGED <<TRACTS, TRACT_KEYS, STATE_LOCK, clock, client_snapshot,
                 committed, version, calls>>

\* ------------------------------------------------------- handler inputs

\* The tract a dropdown or button carries: a seed tract, a tract unknown until
\* it is added, or (DropdownInputs) no selection.
TractInputs == {Tract2, Tract4}

DropdownInputs == TractInputs \cup {<<>>}

AmountInputs == {RawNone, RawText, RawNum(250)}

\* What the bid monitor's price box may hold: a signed numeral is a numeral.
BidInputs == AmountInputs \cup {RawNum(-250)}

UnitInputs == {None, Some("K")}

NameInputs == {<<>>, <<SP>>, <<SP, "Tract 1">>, <<"Tract 4", SP>>}

Row(tract, bid, budget) ==
  [tract |-> tract, current_bid |-> bid, max_budget |-> budget]

TableInputs ==
  { <<Row(Tract3, RawNum(300), RawNum(400)), Row(Tract1, RawText, RawNum(200)),
       Row(Tract2, RawNum(100), RawNum(200))>>,
    <<Row(Tract4, RawNum(100), RawNum(200))>>,
    <<Row(Tract3, RawNum(100), RawNum(0))>> }

\* ----------------------------------------------------------- handler flow

\* The frame at a call of the store function fn.
Call(f, fn, stage) ==
  [f EXCEPT !.fn = fn, !.stage = stage, !.k = 0, !.early = FALSE,
            !.mutated = IF fn \in Mutators THEN TRUE ELSE @,
            !.snap = IF fn = "snapshot_state" THEN EmptySnapshot ELSE @]

\* Handlers that read the store again after broadcasting, for their response.
ReadsBack == {"update_single_approver", "handle_admin_actions"}

\* Where a handler goes on: the label and the frame it goes on with.
Return(f) == [at |-> "return", frame |-> f]

\* broadcast_snapshot() of callbacks/server.py: state.snapshot_state() first.
Broadcast(f) ==
  [at |-> "lock",
   frame |-> Call([f EXCEPT !.bcasts = @ + 1], "snapshot_state", "broadcast")]

\* handle_monitor_high_toggle once it has read the store.
high_toggle_next(f) ==
  IF /\ f.tract \in DOMAIN f.snap.data
     /\ f.snap.data[f.tract].high_bidder = f.is_high
  THEN Return([f EXCEPT !.rejected = TRUE])
  ELSE [at |-> "lock", frame |-> Call(f, "set_high_bidder", "mutate")]

\* Mutant: the table-edit path returns without broadcasting.
after_mutation_TableSilent(f) ==
  IF f.handler = "handle_admin_actions"
     /\ (f.trig = "admin-table" \/ (f.trig = "admin-add-tract" /\ ~f.created))
  THEN Return([f EXCEPT !.rejected = (f.trig = "admin-add-tract")])
  ELSE Broadcast(f)

\* A handler once its store mutation has returned.
after_mutation(f) ==
  IF f.handler = "handle_admin_actions" /\ f.trig = "admin-add-tract"
     /\ ~f.created
  THEN Return([f EXCEPT !.rejected = TRUE])
  ELSE Broadcast(f)

\* A handler once broadcast_snapshot() has returned.
after_emit(f) ==
  IF f.handler \in ReadsBack
  THEN [at |-> "lock", frame |-> Call(f, "snapshot_state", "post")]
  ELSE Return(f)

\* A handler once the store function it called has returned.
after_call(f) ==
  CASE f.stage = "pre" -> high_toggle_next(f)
    [] f.stage = "mutate" -> after_mutation(f)
    [] f.stage = "broadcast" -> [at |-> "emit", frame |-> f]
    [] OTHER -> Return(f)

\* add_tract() up to its `with STATE_LOCK:`: the name is stripped, and an
\* empty one makes it return False at once.
add_tract_entry(f) ==
  LET g == [f EXCEPT !.tract = strip(f.name)] IN
  IF g.tract = <<>>
  THEN after_mutation([g EXCEPT !.fn = "add_tract", !.stage = "mutate",
                                !.mutated = TRUE, !.created = FALSE])
  ELSE [at |-> "lock", frame |-> Call(g, "add_tract", "mutate")]

\* ------------------------------------------------------- the store's lock

\* Mutant: the block is entered whether or not the lock is held.
CanAcquire_Unguarded(t) == TRUE

\* Mutant: snapshot_state() reads the store without taking the lock.
CanAcquire_SnapshotUnlocked(t) ==
  STATE_LOCK = Free \/ frame[t].fn = "snapshot_state"

\* `with STATE_LOCK:` entered: threading.Lock.acquire() blocks while held.
CanAcquire(t) == STATE_LOCK = Free

\* Mutant: a return from inside the block leaves the lock held.
LockAfterExit_EarlyLeak(t) == IF frame[t].early THEN t ELSE Free

\* `with STATE_LOCK:` left, by falling off its end or by a return inside it.
LockAfterExit(t) == Free

Acquire(t) ==
  /\ pc[t] = "lock"
  /\ CanAcquire(t)
  /\ STATE_LOCK' = t
  /\ pc' = [pc EXCEPT ![t] = "body"]
  /\ frame' = [frame EXCEPT ![t].k = 0, ![t].i = 1, ![t].early = FALSE,
                            ![t].logged = "none"]
  /\ UNCHANGED <<TRACTS, TRACT_KEYS, clock, client_snapshot, committed,
                 version, calls>>

\* The store function returns and its caller runs on to its next call.
Release(t) ==
  /\ pc[t] = "unlock"
  /\ STATE_LOCK' = LockAfterExit(t)
  /\ committed' = [keys |-> TRACT_KEYS, tracts |-> TRACTS, clock |-> clock]
  /\ version' = IF frame[t].fn \in Mutators THEN version + 1 ELSE version
  /\ LET f == [frame[t] EXCEPT
                 !.mutVer = IF frame[t].fn \in Mutators THEN version + 1 ELSE @,
                 !.snapVer = IF frame[t].fn = "snapshot_state" THEN version ELSE @]
         nxt == after_call(f)
     IN  /\ pc' = [pc EXCEPT ![t] = nxt.at]
         /\ frame' = [frame EXCEPT ![t] = nxt.frame]
  /\ UNCHANGED <<TRACTS, TRACT_KEYS, clock, client_snapshot, calls>>

\* --------------------------------------------------------------- handlers

\* A handler starts on an idle thread with its frame f, at label at.
Enter(t, f, at) ==
  /\ pc[t] = "idle"
  /\ \A u \in Threads : u < t => pc[u] # "idle"
  /\ calls < MaxCalls
  /\ calls' = calls + 1
  /\ pc' = [pc EXCEPT ![t] = at]
  /\ frame' = [frame EXCEPT ![t] = f]
  /\ UNCHANGED <<TRACTS, TRACT_KEYS, STATE_LOCK, clock, client_snapshot,
                 committed, version>>

\* The handler returns a message without calling the store.
Rejected(handler) == [NoFrame EXCEPT !.handler = handler, !.rejected = TRUE]

\* A user-entered amount that is text float() raises ValueError on.
Unparsable(raw) == raw.kind = "text"

\* The frame f of a handler, with the note that it was given such an amount.
Given(f, raws) ==
  [f EXCEPT !.unparsable = \E j \in 1..Len(raws) : Unparsable(raws[j])]

handle_monitor_submit(t) ==
  \E tract \in TractInputs, raw_amount \in BidInputs, unit \in UnitInputs :
    LET h == "handle_monitor_submit" IN
    IF raw_amount.kind = "none" \/ ~PyFloat(raw_amount).ok
    THEN Enter(t, Given(Rejected(h), <<raw_amount>>), "return")
    ELSE Enter(t, Call(Given([NoFrame EXCEPT
                          !.handler = h, !.tract = tract,
                          !.amount = PyFloat(raw_amount).val * unit_multiplier(unit)],
                             <<raw_amount>>),
                       "update_bid", "mutate"), "lock")

handle_monitor_high_toggle(t) ==
  \E tract \in DropdownInputs, is_high \in BOOLEAN :
    LET h == "handle_monitor_high_toggle" IN
    IF tract = <<>>
    THEN Enter(t, Rejected(h), "return")
    ELSE Enter(t, Call([NoFrame EXCEPT
                          !.handler = h, !.tract = tract, !.is_high = is_high],
                       "snapshot_state", "pre"), "lock")

handle_bidder_request(t) ==
  \E tract \in DropdownInputs, amount \in AmountInputs, unit \in UnitInputs :
    LET h == "handle_bidder_request" IN
    IF tract = <<>> \/ ~PyFloat(amount).ok
    THEN Enter(t, Given(Rejected(h), <<amount>>), "return")
    ELSE Enter(t, Call(Given([NoFrame EXCEPT
                          !.handler = h, !.tract = tract, !.unit = unit,
                          !.amount = PyFloat(amount).val * unit_multiplier(unit)],
                             <<amount>>),
                       "request_budget_increase", "mutate"), "lock")

\* The budget the approver's click passes on: the typed value in the chosen
\* unit, or the pending request of the browser's snapshot when nothing
\* (or nothing numeric) was typed.
approver_new_budget(info, input_value, unit_value) ==
  IF input_value.kind = "none" \/ ~PyFloat(input_value).ok
  THEN info.requested_budget
  ELSE Some(PyFloat(input_value).val * unit_multiplier(unit_value))

\* `if over_budget_now or has_request`, on the browser's snapshot.
approver_allows(info) ==
  info.current_bid > info.max_budget \/ info.requested_budget # None

\* update_single_approver triggered by a click on the tract's Approve button.
update_single_approver(t) ==
  \E tract \in TractInputs, input_value \in AmountInputs,
     unit_value \in UnitInputs :
    LET h == "update_single_approver" IN
    IF tract \notin DOMAIN client_snapshot.data
    THEN Enter(t, Given(Rejected(h), <<input_value>>), "return")
    ELSE LET info == client_snapshot.data[tract] IN
         IF approver_allows(info)
         THEN Enter(t, Call(Given([NoFrame EXCEPT
                               !.handler = h, !.tract = tract,
                               !.new_budget = approver_new_budget(
                                                info, input_value, unit_value)],
                                  <<input_value>>),
                            "approve_over_budget", "mutate"), "lock")
         ELSE Enter(t, Given([NoFrame EXCEPT !.handler = h, !.tract = tract],
                             <<input_value>>), "return")

\* The amounts the cells of the admin table's rows hold.
RECURSIVE RowCells(_)
RowCells(rows) ==
  IF rows = <<>> THEN <<>>
  ELSE <<Head(rows).current_bid, Head(rows).max_budget>> \o RowCells(Tail(rows))

\* `float(x) if x is not None else 0.0` of the add-tract form.
FormFloat(raw) ==
  IF raw.kind = "none" THEN [ok |-> TRUE, val |-> 0] ELSE PyFloat(raw)

\* The admin table's check of every row's max_budget before anything is
\* applied: a row whose max_budget is no numeral is passed over.
RowInvalid(row) ==
  /\ row.max_budget.kind \in {"none", "missing"}
       \/ (PyFloat(row.max_budget).ok /\ PyFloat(row.max_budget).val <= 0)
  /\ row.tract # <<>>

handle_admin_actions(t) ==
  LET h == "handle_admin_actions" IN
  \/ Enter(t, Call([NoFrame EXCEPT !.handler = h, !.trig = "admin-reset"],
                   "reset_state", "mutate"), "lock")
  \/ \E name \in NameInputs, bid \in AmountInputs, max_budget \in AmountInputs :
       IF \/ name = <<>>
          \/ ~FormFloat(bid).ok
          \/ ~FormFloat(max_budget).ok
          \/ FormFloat(max_budget).val <= 0
       THEN Enter(t, Given([Rejected(h) EXCEPT !.trig = "admin-add-tract"],
                           <<bid, max_budget>>), "return")
       ELSE LET f == Given([NoFrame EXCEPT
                        !.handler = h, !.trig = "admin-add-tract",
                        !.name = name, !.bid = FormFloat(bid).val,
                        !.budget = FormFloat(max_budget).val],
                                 <<bid, max_budget>>)
            IN  Enter(t, add_tract_entry(f).frame, add_tract_entry(f).at)
  \/ \E rows \in TableInputs :
       IF \E j \in 1..Len(rows) : RowInvalid(rows[j])
       THEN Enter(t, Given([Rejected(h) EXCEPT !.trig = "admin-table"],
                           RowCells(rows)), "return")
       ELSE Enter(t, Call(Given([NoFrame EXCEPT
                             !.handler = h, !.trig = "admin-table", !.rows = rows],
                                RowCells(rows)),
                          "apply_table_updates", "mutate"), "lock")

\* Mutant: the tick answers with the data the browser already has.
update_snapshot_store_Cached(t) ==
  Enter(t, [NoFrame EXCEPT !.handler = "update_snapshot_store",
                           !.snap = client_snapshot, !.snapVer = version],
        "return")

\* The state-interval tick of a browser.
update_snapshot_store(t) ==
  Enter(t, Call([NoFrame EXCEPT !.handler = "update_snapshot_store"],
                "snapshot_state", "poll"), "lock")

\* ---------------------------------------------------------------- notifier

\* Mutant: the transport's error is logged and raised again.
on_emit_error_Reraise(f) == [f EXCEPT !.emit_failed = TRUE, !.raised = TRUE]

\* The except clause around socketio.emit: the error is logged, nothing else.
on_emit_error(f) == [f EXCEPT !.emit_failed = TRUE]

\* realtime.broadcast_snapshot(socketio, snapshot): the transport delivers the
\* event or raises; the handler then runs on to its next call.
rt_broadcast_snapshot(t) ==
  /\ pc[t] = "emit"
  /\ \E delivered \in BOOLEAN :
       LET f == [frame[t] EXCEPT !.emits = @ + 1, !.stage = "emitted"]
           g == IF delivered THEN f ELSE on_emit_error(f)
           nxt == IF g.raised THEN Return(g) ELSE after_emit(g)
       IN  /\ frame' = [frame EXCEPT ![t] = nxt.frame]
           /\ pc' = [pc EXCEPT ![t] = nxt.at]
  /\ UNCHANGED <<TRACTS, TRACT_KEYS, STATE_LOCK, clock, client_snapshot,
                 committed, version, calls>>

\* The handler's response reaches the browser; a poll's response is the new
\* snapshot-store data.
respond(t) ==
  /\ pc[t] = "return"
  /\ pc' = [pc EXCEPT ![t] = "idle"]
  /\ frame' = [frame EXCEPT ![t] = NoFrame]
  /\ client_snapshot' =
       IF frame[t].handler = "update_snapshot_store" /\ ~frame[t].raised
       THEN frame[t].snap ELSE client_snapshot
  /\ UNCHANGED <<TRACTS, TRACT_KEYS, STATE_LOCK, clock, committed, version,
                 calls>>

Step(t) ==
  \/ handle_monitor_submit(t)
  \/ handle_monitor_high_toggle(t)
  \/ handle_bidder_request(t)
  \/ update_single_approver(t)
  \/ handle_admin_actions(t)
  \/ update_snapshot_store(t)
  \/ Acquire(t)
  \/ update_bid(t)
  \/ approve_over_budget(t)
  \/ request_budget_increase(t)
  \/ set_high_bidder(t)
  \/ reset_state(t)
  \/ apply_table_updates(t)
  \/ add_tract(t)
  \/ snapshot_state(t)
  \/ Release(t)
  \/ rt_broadcast_snapshot(t)
  \/ respond(t)

Next == \E t \in Threads : Step(t)

Spec == Init /\ [][Next]_vars

\* While some thread can take a step, some thread eventually takes one: the
\* interpreter keeps scheduling runnable threads.
FairSpec == Spec /\ WF_vars(Next)

\* ----------------------------------------- concurrent callers of update_bid

\* A thread calls update_bid(tract, amount) itself, on an existing tract that
\* no other caller names, and stays at its return until all have returned.
concurrent_update_bid(t) ==
  \E tract \in DOMAIN INITIAL_STATE, raw \in BidInputs :
    /\ raw.kind = "num"
    /\ \A u \in Threads \ {t} : frame[u].tract # tract
    /\ Enter(t, Call([NoFrame EXCEPT !.handler = "caller", !.tract = tract,
                                     !.amount = PyFloat(raw).val],
                     "update_bid", "direct"), "lock")

ConcurrentBidsNext ==
  \E t \in Threads :
    \/ concurrent_update_bid(t)
    \/ Acquire(t)
    \/ update_bid(t)
    \/ Release(t)

ConcurrentBidsSpec == Init /\ [][ConcurrentBidsNext]_vars

\* ------------------------------------------- whole-operation semantics

\* The record left by running all of stmts on rec, last_updated taking now.
ApplyStmts(rec, stmts, now) ==
  [fld \in DOMAIN rec |->
     LET hits == {k \in 1..Len(stmts) : stmts[k][1] = fld} IN
     IF hits = {} THEN rec[fld]
     ELSE IF fld = "last_updated" THEN now
     ELSE stmts[CHOOSE k \in hits : \A j \in hits : j <= k][2]]

Stamps(stmts) == \E k \in 1..Len(stmts) : stmts[k][1] = "last_updated"

\* A store function that tests `tract in TRACTS` and then runs stmts.
whole_assignments(store, tract, stmts) ==
  IF tract \notin DOMAIN store.tracts THEN store
  ELSE [store EXCEPT
          !.tracts[tract] = ApplyStmts(@, stmts, store.clock + 1),
          !.clock = IF Stamps(stmts) THEN @ + 1 ELSE @]

whole_reset_state(store) ==
  [store EXCEPT
     !.tracts = [n \in DOMAIN store.tracts \cup DOMAIN INITIAL_STATE |->
                   IF n \in DOMAIN INITIAL_STATE THEN reset_record(n)
                   ELSE store.tracts[n]]]

RECURSIVE whole_apply_table_updates(_, _, _)
whole_apply_table_updates(store, rows, i) ==
  IF i > Len(rows) THEN store
  ELSE IF ~RowApplies(store.tracts, rows[i])
  THEN whole_apply_table_updates(store, rows, i + 1)
  ELSE LET row == rows[i]
           cur == store.tracts[row.tract]
           f == [bid |-> RowFloat(row.current_bid, cur.current_bid).val,
                 budget |-> RowFloat(row.max_budget, cur.max_budget).val]
       IN  whole_apply_table_updates(
             whole_assignments(store, row.tract, apply_table_updates_stmts(f)),
             rows, i + 1)

whole_add_tract(store, f) ==
  IF f.tract \in DOMAIN store.tracts THEN store
  ELSE [keys |-> Append(store.keys, f.tract),
        tracts |-> SetItem(store.tracts, f.tract,
                           add_tract_record(f, store.clock + 1)),
        clock |-> store.clock + 1]

\* The store a mutating store function leaves when it runs alone, start to
\* end, on `store` with the arguments held in frame f.
Serial(store, f) ==
  CASE f.fn = "update_bid" ->
         whole_assignments(store, f.tract, update_bid_stmts(f))
    [] f.fn = "approve_over_budget" ->
         whole_assignments(store, f.tract, approve_over_budget_stmts(f))
    [] f.fn = "request_budget_increase" ->
         whole_assignments(store, f.tract, request_budget_increase_stmts(f))
    [] f.fn = "set_high_bidder" ->
         whole_assignments(store, f.tract, set_high_bidder_stmts(f))
    [] f.fn = "reset_state" -> whole_reset_state(store)
    [] f.fn = "apply_table_updates" ->
         whole_apply_table_updates(store, f.rows, 1)
    [] f.fn = "add_tract" -> whole_add_tract(store, f)
    [] OTHER -> store

\* ------------------------------------------------ the monolithic app.py
\* app.py holds its own copy of the store and of the callbacks.  Its store
\* functions take the lock, change the store and broadcast by themselves;
\* here each callback is one step, its store function run whole.  Its
\* records have no requested_unit.

AppSeedRecord(bid, budget, ts) ==
  [current_bid |-> bid, max_budget |-> budget, approved_over_budget |-> FALSE,
   requested_budget |-> None, high_bidder |-> FALSE, last_updated |-> ts]

APP_INITIAL_STATE ==
  (Tract1 :> AppSeedRecord(120000, 150000, 1)) @@
  (Tract2 :> AppSeedRecord(210500, 200000, 2)) @@
  (Tract3 :> AppSeedRecord(95250, 110000, 3))

app_snapshot_record(data) ==
  [current_bid |-> data.current_bid, max_budget |-> data.max_budget,
   approved_over_budget |-> data.approved_over_budget,
   requested_budget |-> data.requested_budget,
   high_bidder |-> data.high_bidder,
   last_updated |-> isoformat(data.last_updated)]

app_snapshot_state(store) ==
  [keys |-> store.keys,
   data |-> [n \in DOMAIN store.tracts |-> app_snapshot_record(store.tracts[n])]]

app_update_bid_stmts(amount) ==
  << <<"current_bid", amount>>, <<"last_updated", 0>>,
     <<"approved_over_budget", FALSE>>, <<"requested_budget", None>>,
     <<"high_bidder", FALSE>> >>

app_request_budget_increase_stmts(amount) ==
  << <<"requested_budget", Some(amount)>>, <<"approved_over_budget", FALSE>> >>

app_set_high_bidder_stmts(is_high) == << <<"high_bidder", is_high>> >>

app_reset_state(store) ==
  [store EXCEPT
     !.tracts = [n \in DOMAIN store.tracts \cup DOMAIN APP_INITIAL_STATE |->
                   IF n \in DOMAIN APP_INITIAL_STATE THEN APP_INITIAL_STATE[n]
                   ELSE store.tracts[n]]]

app_apply_table_updates_stmts(bid, budget) ==
  << <<"current_bid", bid>>, <<"max_budget", budget>>, <<"last_updated", 0>>,
     <<"approved_over_budget", FALSE>>, <<"requested_budget", None>> >>

RECURSIVE app_apply_table_updates(_, _, _)
app_apply_table_updates(store, rows, i) ==
  IF i > Len(rows) THEN store
  ELSE IF ~RowApplies(store.tracts, rows[i])
  THEN app_apply_table_updates(store, rows, i + 1)
  ELSE LET row == rows[i]
           cur == store.tracts[row.tract]
       IN  app_apply_table_updates(
             whole_assignments(store, row.tract,
               app_apply_table_updates_stmts(
                 RowFloat(row.current_bid, cur.current_bid).val,
                 RowFloat(row.max_budget, cur.max_budget).val)),
             rows, i + 1)

\* add_tract(name, current_bid, max_budget) of app.py: the store it leaves and
\* the value it returns.
app_add_tract(store, name, bid, budget) ==
  LET n == strip(name) IN
  IF n = <<>> \/ n \in DOMAIN store.tracts
  THEN [store |-> store, created |-> FALSE]
  ELSE [store |-> [keys |-> Append(store.keys, n),
                   tracts |-> SetItem(store.tracts, n,
                                AppSeedRecord(bid, budget, store.clock + 1)),
                   clock |-> store.clock + 1],
        created |-> TRUE]

\* round(num / den, 0) of Python 3: to the nearest integer, a tie to the even
\* one.  Amounts are whole numbers, so the quotient is taken exactly.
RoundHalfEven(num, den) ==
  LET n == IF den < 0 THEN 0 - num ELSE num
      d == IF den < 0 THEN 0 - den ELSE den
      q == n \div d
      r == n - q * d
  IN  IF 2 * r < d THEN q
      ELSE IF 2 * r > d THEN q + 1
      ELSE IF q % 2 = 0 THEN q ELSE q + 1

\* A percentage is held in tenths of a percent: 1500 is 150.0.
PctCap == 1500

\* safe_pct_of_budget of state.py.
safe_pct_of_budget(current_bid, max_budget) ==
  IF max_budget <= 0 THEN 0
  ELSE LET pct == RoundHalfEven(current_bid * 1000, max_budget) IN
       IF pct < 0 THEN 0 ELSE IF pct > PctCap THEN PctCap ELSE pct

\* build_budget_progress of ui/charts.py: the bar lengths, or the error raised.
build_budget_progress(snapshot) ==
  [raised |-> FALSE,
   pct |-> [n \in DOMAIN snapshot.data |->
              safe_pct_of_budget(snapshot.data[n].current_bid,
                                 snapshot.data[n].max_budget)]]

\* build_budget_progress of app.py:
\* min(round((current_bid / max_budget) * 100, 1), 150) for every record.
app_build_budget_progress(snapshot) ==
  IF \E n \in DOMAIN snapshot.data : snapshot.data[n].max_budget = 0
  THEN [raised |-> TRUE, pct |-> <<>>]
  ELSE [raised |-> FALSE,
        pct |-> [n \in DOMAIN snapshot.data |->
                   LET pct == RoundHalfEven(snapshot.data[n].current_bid * 1000,
                                            snapshot.data[n].max_budget)
                   IN  IF pct < PctCap THEN pct ELSE PctCap]]

\* What the last callback of app.py was and did.
\* The locals of a page render running tract_options() of app.py: the
\* iterator over TRACTS.keys() (its position, the size and the keys of the
\* dict when it was made), the options built so far, whether the iterator
\* raised RuntimeError (dictionary changed size during iteration), and the
\* dropdown's default value.
NoReader ==
  [at |-> "idle", pos |-> 0, size |-> 0, keys |-> <<>>, options |-> <<>>,
   raised |-> FALSE, value |-> <<>>]

AppNoFrame ==
  [op |-> "none", tract |-> <<>>, rows |-> <<>>, budget |-> None,
   created |-> FALSE, rejected |-> FALSE, unparsable |-> FALSE,
   chart |-> [raised |-> FALSE, pct |-> <<>>], reader |-> NoReader]

\* A callback's record replaces the last one; the page render in progress on
\* another thread keeps its locals.
AppFrame(f) == [f EXCEPT !.reader = frame.reader]

AppInit ==
  /\ TRACTS = APP_INITIAL_STATE
  /\ TRACT_KEYS = INITIAL_KEYS
  /\ STATE_LOCK = Free
  /\ clock = SeedClock
  /\ pc = [t \in Threads |-> "idle"]
  /\ frame = AppNoFrame
  /\ client_snapshot =
       app_snapshot_state([keys |-> INITIAL_KEYS, tracts |-> APP_INITIAL_STATE])
  /\ committed = [keys |-> INITIAL_KEYS, tracts |-> APP_INITIAL_STATE,
                  clock |-> SeedClock]
  /\ version = 0
  /\ calls = 0

\* A callback of app.py that may call the store: it leaves the store `store`
\* and the record f of what it did.
AppCall(store, f) ==
  /\ calls < MaxCalls
  /\ calls' = calls + 1
  /\ committed' = [keys |-> TRACT_KEYS, tracts |-> TRACTS, clock |-> clock]
  /\ TRACTS' = store.tracts
  /\ TRACT_KEYS' = store.keys
  /\ clock' = store.clock
  /\ frame' = AppFrame(f)
  /\ version' = IF f.rejected THEN version ELSE version + 1
  /\ UNCHANGED <<STATE_LOCK, pc, client_snapshot>>

AppStore == [keys |-> TRACT_KEYS, tracts |-> TRACTS, clock |-> clock]

AppRejected(op, raws) ==
  [AppNoFrame EXCEPT !.op = op, !.rejected = TRUE,
     !.unparsable = \E j \in 1..Len(raws) : Unparsable(raws[j])]

app_handle_monitor_submit ==
  \E tract \in TractInputs, raw_amount \in BidInputs, unit \in UnitInputs :
    LET op == "update_bid" IN
    IF raw_amount.kind = "none" \/ ~PyFloat(raw_amount).ok
    THEN AppCall(AppStore, AppRejected(op, <<raw_amount>>))
    ELSE AppCall(whole_assignments(AppStore, tract,
                   app_update_bid_stmts(
                     PyFloat(raw_amount).val * unit_multiplier(unit))),
                 [AppNoFrame EXCEPT !.op = op, !.tract = tract])

app_handle_monitor_high_toggle ==
  \E tract \in DropdownInputs, is_high \in BOOLEAN :
    LET op == "set_high_bidder" IN
    IF tract = <<>>
    THEN AppCall(AppStore, AppRejected(op, <<>>))
    ELSE AppCall(whole_assignments(AppStore, tract,
                                   app_set_high_bidder_stmts(is_high)),
                 [AppNoFrame EXCEPT !.op = op, !.tract = tract])

app_handle_bidder_request ==
  \E tract \in DropdownInputs, amount \in AmountInputs, unit \in UnitInputs :
    LET op == "request_budget_increase" IN
    IF tract = <<>> \/ ~PyFloat(amount).ok
    THEN AppCall(AppStore, AppRejected(op, <<amount>>))
    ELSE AppCall(whole_assignments(AppStore, tract,
                   app_request_budget_increase_stmts(
                     PyFloat(amount).val * unit_multiplier(unit))),
                 [AppNoFrame EXCEPT !.op = op, !.tract = tract])

\* handle_admin_actions of app.py: no check of max_budget on either path.
app_handle_admin_actions ==
  \/ AppCall(app_reset_state(AppStore), [AppNoFrame EXCEPT !.op = "reset_state"])
  \/ \E name \in NameInputs, bid \in AmountInputs, max_budget \in AmountInputs :
       LET op == "add_tract" IN
       IF name = <<>> \/ ~FormFloat(bid).ok \/ ~FormFloat(max_budget).ok
       THEN AppCall(AppStore, AppRejected(op, <<bid, max_budget>>))
       ELSE LET got == app_add_tract(AppStore, name, FormFloat(bid).val,
                                     FormFloat(max_budget).val)
            IN  AppCall(got.store,
                        [AppNoFrame EXCEPT
                           !.op = op, !.tract = strip(name),
                           !.budget = Some(FormFloat(max_budget).val),
                           !.created = got.created,
                           !.rejected = ~got.created])
  \/ \E rows \in TableInputs :
       AppCall(app_apply_table_updates(AppStore, rows, 1),
               [AppNoFrame EXCEPT
                  !.op = "apply_table_updates", !.rows = rows,
                  !.unparsable = \E j \in 1..Len(RowCells(rows)) :
                                    Unparsable(RowCells(rows)[j])])

\* The state-interval tick: the browser's snapshot-store takes the snapshot.
app_update_snapshot_store ==
  /\ client_snapshot' = app_snapshot_state(AppStore)
  /\ UNCHANGED <<TRACTS, TRACT_KEYS, STATE_LOCK, clock, pc, frame, committed,
                 version, calls>>

\* refresh_view_only of app.py, run when snapshot-store changes.
app_refresh_view_only ==
  /\ frame' = AppFrame([AppNoFrame EXCEPT
                 !.op = "refresh_view_only",
                 !.chart = app_build_budget_progress(client_snapshot)])
  /\ UNCHANGED <<TRACTS, TRACT_KEYS, STATE_LOCK, clock, pc, client_snapshot,
                 committed, version, calls>>

\* tract_options() of app.py, called by monitor_layout and bidder_layout:
\* TRACTS.keys() is iterated with no lock taken, one name per step, so the
\* callbacks above run between two steps.  The iterator raises when the dict
\* has another size than when the iterator was made.
app_tract_options ==
  LET r == frame.reader IN
  /\ r.at \in {"idle", "iter"}
  /\ frame' =
       [frame EXCEPT !.reader =
          IF r.at # "iter"
          THEN [NoReader EXCEPT !.at = "iter", !.size = Len(TRACT_KEYS),
                                !.keys = TRACT_KEYS]
          ELSE IF Len(TRACT_KEYS) # r.size
          THEN [r EXCEPT !.at = "idle", !.raised = TRUE]
          ELSE IF r.pos = r.size
          THEN [r EXCEPT !.at = "value"]
          ELSE [r EXCEPT !.pos = r.pos + 1,
                         !.options = Append(r.options, TRACT_KEYS[r.pos + 1])]]
  /\ UNCHANGED <<TRACTS, TRACT_KEYS, STATE_LOCK, clock, pc, client_snapshot,
                 committed, version, calls>>

\* The default value of the dropdown in monitor_layout and bidder_layout:
\* list(TRACTS.keys())[0], again with no lock taken.
app_monitor_layout ==
  /\ frame.reader.at = "value"
  /\ frame' = [frame EXCEPT !.reader.at = "idle",
                            !.reader.value = <<TRACT_KEYS[1]>>]
  /\ UNCHANGED <<TRACTS, TRACT_KEYS, STATE_LOCK, clock, pc, client_snapshot,
                 committed, version, calls>>

AppNext ==
  \/ app_handle_monitor_submit
  \/ app_handle_monitor_high_toggle
  \/ app_handle_bidder_request
  \/ app_handle_admin_actions
  \/ app_update_snapshot_store
  \/ app_refresh_view_only
  \/ app_tract_options
  \/ app_monitor_layout

AppSpec == AppInit /\ [][AppNext]_vars

\* ----------------------------------------------------------- properties

Store == [keys |-> TRACT_KEYS, tracts |-> TRACTS, clock |-> clock]

InCritical(t) == pc[t] \in {"body", "unlock"}

\* Thread t has run the whole body of store function fn and is about to
\* leave its `with STATE_LOCK:` block.
Finishing(t, fn) == pc[t] = "unlock" /\ frame[t].fn = fn

\* C1: at most one thread is inside a critical section of the store, every
\* mutating store function leaves exactly the store that running it alone on
\* the store it found would leave, and between critical sections the store
\* is the one the last critical section left.
C1_MutationsAtomic ==
  /\ \A t, u \in Threads : t # u => ~(InCritical(t) /\ InCritical(u))
  /\ \A t \in Threads :
       pc[t] = "unlock" /\ frame[t].fn \in Mutators =>
         Store = Serial(committed, frame[t])
  /\ (\A t \in Threads : ~InCritical(t)) => Store = committed

\* A mutation is half done while another thread waits for the lock to mutate.
C1_Witness ==
  \E t, u \in Threads :
    /\ pc[t] = "body" /\ frame[t].fn = "update_bid" /\ frame[t].k = 3
    /\ pc[u] = "lock" /\ frame[u].fn \in Mutators

\* C2: every record of a snapshot, while it is being taken and when
\* snapshot_state() returns it, is the rendering of that record as the last
\* completed critical section left it, and the returned snapshot is the
\* rendering of that whole store: no record mixes fields from before and
\* after a mutation.
C2_SnapshotConsistent ==
  \A t \in Threads :
    InCritical(t) /\ frame[t].fn = "snapshot_state" =>
      /\ \A n \in DOMAIN frame[t].snap.data :
           /\ n \in DOMAIN committed.tracts
           /\ frame[t].snap.data[n] = RenderRecord(committed.tracts[n])
      /\ pc[t] = "unlock" =>
           frame[t].snap = Render(committed.keys, committed.tracts)

\* A snapshot of a mutated store is complete while a mutation waits for the
\* lock.
C2_Witness ==
  \E t, u \in Threads :
    /\ Finishing(t, "snapshot_state")
    /\ committed.tracts # INITIAL_STATE
    /\ pc[u] = "lock" /\ frame[u].fn \in Mutators

\* The lock is held exactly by the thread inside a critical section, so its
\* holder is never at the notifier, never waiting for the lock and never
\* back in its handler, and some thread can always take a step while a
\* handler is running.
C3_LockDiscipline ==
  /\ \A t \in Threads : STATE_LOCK = t <=> InCritical(t)
  /\ (\E t \in Threads : pc[t] # "idle") => ENABLED Next

\* C3: no deadlock: the lock discipline always holds, and while runnable
\* threads keep being scheduled every handler that has started runs to its
\* end, leaving all threads idle and the lock free.
C3_NoDeadlock ==
  /\ []C3_LockDiscipline
  /\ <>[](STATE_LOCK = Free /\ \A t \in Threads : pc[t] = "idle")

\* A store function leaves its block by the unknown-tract return while
\* another thread waits for the lock.
C3_Witness ==
  \E t, u \in Threads :
    /\ pc[t] = "unlock" /\ frame[t].early /\ frame[t].fn = "update_bid"
    /\ pc[u] = "lock"

\* C4: when update_bid(name, X) has run on an existing tract, that record
\* has current_bid = X, a last_updated newer than every earlier one, the
\* approval, request, unit and high-bidder fields cleared and max_budget as
\* before, and every other record and the key order are as before.
C4_UpdateBidClears ==
  \A t \in Threads :
    Finishing(t, "update_bid") /\ frame[t].tract \in DOMAIN committed.tracts =>
      LET name == frame[t].tract
          old == committed.tracts
      IN  /\ DOMAIN TRACTS = DOMAIN old
          /\ TRACT_KEYS = committed.keys
          /\ TRACTS[name] =
               [current_bid |-> frame[t].amount,
                max_budget |-> old[name].max_budget,
                approved_over_budget |-> FALSE, requested_budget |-> None,
                requested_unit |-> None, high_bidder |-> FALSE,
                last_updated |-> committed.clock + 1]
          /\ \A n \in DOMAIN old : old[n].last_updated <= committed.clock
          /\ \A n \in DOMAIN old \ {name} : TRACTS[n] = old[n]

\* update_bid has run on a record that was flagged high bidder, or had a
\* request pending, or was approved.
C4_Witness ==
  \E t \in Threads :
    /\ Finishing(t, "update_bid")
    /\ frame[t].tract \in DOMAIN committed.tracts
    /\ LET old == committed.tracts[frame[t].tract]
       IN  old.high_bidder \/ old.requested_budget # None
             \/ old.approved_over_budget

\* The rows of a batch that name a tract of the store.
KnownRows(rows, tracts) ==
  {j \in 1..Len(rows) : rows[j].tract \in DOMAIN tracts}

\* C5: update_bid, approve_over_budget, request_budget_increase and
\* set_high_bidder called with a name that is not in the store, and
\* apply_table_updates given only rows that name unknown tracts, leave the
\* store as it was and raise nothing; apply_table_updates never creates a
\* record.
C5_UnknownTractNoOp ==
  \A t \in Threads :
    LET f == frame[t] IN
    /\ /\ pc[t] = "unlock"
       /\ f.fn \in {"update_bid", "approve_over_budget",
                    "request_budget_increase", "set_high_bidder"}
       /\ f.tract \notin DOMAIN committed.tracts
       => /\ Store = committed
          /\ Render(TRACT_KEYS, TRACTS) = Render(committed.keys, committed.tracts)
          /\ ~f.raised
    /\ Finishing(t, "apply_table_updates")
       => /\ DOMAIN TRACTS = DOMAIN committed.tracts
          /\ TRACT_KEYS = committed.keys
          /\ ~f.raised
          /\ KnownRows(f.rows, committed.tracts) = {} => Store = committed

\* A store function has run on a name that is not in the store.
C5_Witness ==
  \E t \in Threads :
    /\ pc[t] = "unlock"
    /\ frame[t].fn \in {"approve_over_budget", "request_budget_increase",
                        "set_high_bidder"}
    /\ frame[t].tract \notin DOMAIN committed.tracts
    /\ committed.tracts # INITIAL_STATE

\* The handler running in frame f has called a store mutation that reported
\* success (add_tract may report failure; the others report nothing).
MutationDone(f) ==
  f.mutated /\ ~(f.fn = "add_tract" /\ ~f.created)
            /\ ~(f.trig = "admin-add-tract" /\ ~f.created)

\* C6: a handler that has called a store mutation does not return before it
\* has called broadcast once, and the snapshot it broadcasts is the rendering
\* of the whole store at an instant at which the handler's mutation is
\* already committed.
C6_MutationThenBroadcast ==
  \A t \in Threads :
    LET f == frame[t] IN
    /\ pc[t] = "return" /\ MutationDone(f) =>
         f.bcasts = 1 /\ f.emits = 1 /\ f.snapVer >= f.mutVer
    /\ Finishing(t, "snapshot_state") /\ f.stage = "broadcast" =>
         /\ f.mutated /\ f.mutVer >= 1 /\ version >= f.mutVer
         /\ f.snap = Render(TRACT_KEYS, TRACTS)
    /\ pc[t] = "emit" =>
         f.mutated /\ f.snapVer >= f.mutVer /\ f.snap.keys # <<>>

\* The table-edit handler is about to return after a mutation and a
\* broadcast.
C6_Witness ==
  \E t \in Threads :
    /\ pc[t] = "return" /\ MutationDone(frame[t])
    /\ frame[t].trig = "admin-table" /\ frame[t].emits = 1
    /\ TRACTS # INITIAL_STATE

\* C7: a failed emit is not raised to the handler and not tried again, and
\* the step that handles the failure changes nothing in the store, so the
\* committed mutation stays.
C7_EmitFailureSwallowed ==
  /\ [](\A t \in Threads :
          frame[t].emit_failed => ~frame[t].raised /\ frame[t].emits = 1)
  /\ [][\A t \in Threads :
          pc[t] = "emit" /\ frame'[t].emit_failed =>
            /\ TRACTS' = TRACTS /\ TRACT_KEYS' = TRACT_KEYS
            /\ committed' = committed /\ version' = version
            /\ version >= frame[t].mutVer
            /\ pc'[t] \in {"lock", "return"}]_vars

\* A handler returns after its mutation although the emit failed.
C7_Witness ==
  \E t \in Threads :
    /\ pc[t] = "return" /\ frame[t].emit_failed /\ MutationDone(frame[t])
    /\ TRACTS # INITIAL_STATE

\* C8: when reset_state() has run, every seed tract holds exactly its seed
\* record, seed timestamp included, every other record is as it was, no key
\* has moved and no timestamp was drawn.
C8_ResetRestoresSeed ==
  \A t \in Threads :
    Finishing(t, "reset_state") =>
      /\ \A n \in DOMAIN INITIAL_STATE :
           /\ n \in DOMAIN TRACTS
           /\ TRACTS[n] = INITIAL_STATE[n]
           /\ TRACTS[n].last_updated <= SeedClock
      /\ DOMAIN TRACTS = DOMAIN committed.tracts
      /\ \A n \in DOMAIN committed.tracts \ DOMAIN INITIAL_STATE :
           TRACTS[n] = committed.tracts[n]
      /\ TRACT_KEYS = committed.keys
      /\ clock = committed.clock

\* reset_state() has run on a store that holds an added tract.
C8_Witness ==
  \E t \in Threads :
    /\ Finishing(t, "reset_state")
    /\ Tract4 \in DOMAIN TRACTS
    /\ TRACTS[Tract4].last_updated > SeedClock

\* raw with its leading and trailing whitespace removed is n.
TrimsTo(raw, n) ==
  /\ n = <<>> \/ (n[1] # SP /\ n[Len(n)] # SP)
  /\ \E i \in 1..(Len(raw) + 1) :
       /\ i + Len(n) - 1 <= Len(raw)
       /\ \A p \in 1..Len(raw) :
            IF p < i \/ p > i + Len(n) - 1 THEN raw[p] = SP
            ELSE raw[p] = n[p - i + 1]

\* C9: add_tract(name, bid, budget) whose name is empty once trimmed never
\* enters the store and returns False; one whose trimmed name is in the store
\* returns False and leaves the store, that record included, as it was.
C9_AddTractRejects ==
  \A t \in Threads :
    LET f == frame[t] IN
    f.fn = "add_tract" =>
      /\ TrimsTo(f.name, <<>>) =>
           pc[t] = "return" /\ ~f.created /\ f.rejected /\ f.mutVer = 0
      /\ Finishing(t, "add_tract")
           /\ (\E n \in DOMAIN committed.tracts : TrimsTo(f.name, n)) =>
           ~f.created /\ Store = committed

\* add_tract has run on a padded name whose trimmed form is in the store.
C9_Witness ==
  \E t \in Threads :
    /\ Finishing(t, "add_tract")
    /\ frame[t].name # Tract1 /\ TrimsTo(frame[t].name, Tract1)
    /\ ~frame[t].created

\* C10: add_tract(name, bid, budget) whose trimmed name n is not empty and
\* not in the store returns True, and the store then holds one more record,
\* under n, last in key order, with the given bid and budget, no approval,
\* request, unit or high-bidder flag, and the time of the call; every record
\* it held is as it was.
C10_AddTractInserts ==
  \A t \in Threads :
    LET f == frame[t] IN
    Finishing(t, "add_tract") =>
      \A n \in {SubSeq(f.name, i, j) : i, j \in 1..Len(f.name)} :
        TrimsTo(f.name, n) /\ n # <<>> /\ n \notin DOMAIN committed.tracts =>
          /\ f.created
          /\ DOMAIN TRACTS = DOMAIN committed.tracts \cup {n}
          /\ TRACT_KEYS = Append(committed.keys, n)
          /\ TRACTS[n] =
               [current_bid |-> f.bid, max_budget |-> f.budget,
                approved_over_budget |-> FALSE, requested_budget |-> None,
                requested_unit |-> None, high_bidder |-> FALSE,
                last_updated |-> committed.clock + 1]
          /\ clock = committed.clock + 1
          /\ \A m \in DOMAIN committed.tracts : TRACTS[m] = committed.tracts[m]

\* add_tract has inserted a tract, given a padded name and a bid that differs
\* from the budget, into a store that was changed before.
C10_Witness ==
  \E t \in Threads :
    /\ Finishing(t, "add_tract") /\ frame[t].created
    /\ frame[t].name # frame[t].tract
    /\ frame[t].bid # frame[t].budget
    /\ committed.tracts # INITIAL_STATE

\* C11: when approve_over_budget(name, new_budget) has run on a tract of the
\* store, the record is approved and holds no requested budget and no
\* requested unit; its max_budget is new_budget when one was given and what
\* it was before otherwise.
C11_ApproveSetsBudget ==
  \A t \in Threads :
    LET f == frame[t] IN
    Finishing(t, "approve_over_budget") /\ f.tract \in DOMAIN committed.tracts =>
      /\ TRACTS[f.tract].approved_over_budget = TRUE
      /\ TRACTS[f.tract].requested_budget = None
      /\ TRACTS[f.tract].requested_unit = None
      /\ TRACTS[f.tract].max_budget =
           IF f.new_budget = None THEN committed.tracts[f.tract].max_budget
           ELSE f.new_budget[1]

\* approve_over_budget(t, b) has run on a record that held a request with a
\* unit, made by request_budget_increase(t, r, u) before.
C11_Witness ==
  \E t \in Threads :
    /\ Finishing(t, "approve_over_budget")
    /\ frame[t].tract \in DOMAIN committed.tracts
    /\ committed.tracts[frame[t].tract].requested_budget # None
    /\ committed.tracts[frame[t].tract].requested_unit # None
    /\ frame[t].new_budget # None
    /\ frame[t].new_budget # committed.tracts[frame[t].tract].requested_budget
    /\ frame[t].new_budget[1] # committed.tracts[frame[t].tract].max_budget

\* C12: when request_budget_increase(name, amount, unit) has run on a tract
\* of the store, the record holds the amount and the unit as its request and
\* is not approved; its max_budget, current_bid and high_bidder are what
\* they were.
C12_RequestRevokesApproval ==
  \A t \in Threads :
    LET f == frame[t] IN
    Finishing(t, "request_budget_increase")
      /\ f.tract \in DOMAIN committed.tracts =>
      /\ TRACTS[f.tract].requested_budget = Some(f.amount)
      /\ TRACTS[f.tract].requested_unit = f.unit
      /\ TRACTS[f.tract].approved_over_budget = FALSE
      /\ TRACTS[f.tract].max_budget = committed.tracts[f.tract].max_budget
      /\ TRACTS[f.tract].current_bid = committed.tracts[f.tract].current_bid
      /\ TRACTS[f.tract].high_bidder = committed.tracts[f.tract].high_bidder

\* request_budget_increase has run on a record that was approved.
C12_Witness ==
  \E t \in Threads :
    /\ Finishing(t, "request_budget_increase")
    /\ frame[t].tract \in DOMAIN committed.tracts
    /\ committed.tracts[frame[t].tract].approved_over_budget
    /\ frame[t].unit # None

\* A cell float() raises on: text that is no numeral, or None.
BadCell(raw) == raw.kind \in {"text", "none"}

\* The number a cell stands for, given the value the record held.
CellValue(raw, old) == IF raw.kind = "missing" THEN old ELSE raw.val

\* C13: when apply_table_updates(rows) has run, it has gone through every
\* row; the record of a row with a cell that is no number is wholly as it
\* was, and the record of every other row naming a tract of the store,
\* before or after such a row, holds the row's bid and budget and a new
\* timestamp.
C13_RowsIndependent ==
  \A t \in Threads :
    LET f == frame[t] IN
    Finishing(t, "apply_table_updates") =>
      /\ f.i = Len(f.rows) + 1 /\ ~f.early /\ ~f.raised
      /\ \A j \in 1..Len(f.rows) :
           LET row == f.rows[j] IN
           /\ row.tract \in DOMAIN committed.tracts
           /\ \A m \in 1..Len(f.rows) : m # j => f.rows[m].tract # row.tract
           => IF BadCell(row.current_bid) \/ BadCell(row.max_budget)
              THEN TRACTS[row.tract] = committed.tracts[row.tract]
              ELSE LET old == committed.tracts[row.tract] IN
                   /\ TRACTS[row.tract].current_bid =
                        CellValue(row.current_bid, old.current_bid)
                   /\ TRACTS[row.tract].max_budget =
                        CellValue(row.max_budget, old.max_budget)
                   /\ TRACTS[row.tract].last_updated > committed.clock

\* apply_table_updates has run on a batch whose second row has a bid that is
\* no number, between two rows that changed their records.
C13_Witness ==
  \E t \in Threads :
    LET f == frame[t] IN
    /\ Finishing(t, "apply_table_updates")
    /\ Len(f.rows) = 3
    /\ BadCell(f.rows[2].current_bid)
    /\ f.rows[2].tract \in DOMAIN committed.tracts
    /\ \A j \in {1, 3} :
         /\ f.rows[j].tract \in DOMAIN committed.tracts
         /\ TRACTS[f.rows[j].tract] # committed.tracts[f.rows[j].tract]
    /\ committed.tracts # INITIAL_STATE

\* Row j of rows names a tract of `tracts`, alone among the rows, and both
\* its cells are numbers (or left out).
AppliedRow(rows, j, tracts) ==
  /\ rows[j].tract \in DOMAIN tracts
  /\ \A m \in 1..Len(rows) : m # j => rows[m].tract # rows[j].tract
  /\ ~BadCell(rows[j].current_bid) /\ ~BadCell(rows[j].max_budget)

\* What the claim says of the record rec a row has been applied to, old
\* being the record before and now the time before.
BulkUpdated(rec, row, old, now) ==
  /\ rec.current_bid = CellValue(row.current_bid, old.current_bid)
  /\ rec.max_budget = CellValue(row.max_budget, old.max_budget)
  /\ rec.last_updated > now
  /\ rec.approved_over_budget = FALSE
  /\ rec.requested_budget = None
  /\ "requested_unit" \in DOMAIN rec => rec.requested_unit = None
  /\ rec.high_bidder = FALSE

\* The bulk update of state.py does what C14 says.
BulkUpdateClears_state ==
  \A t \in Threads :
    LET f == frame[t] IN
    Finishing(t, "apply_table_updates") =>
      \A j \in 1..Len(f.rows) :
        AppliedRow(f.rows, j, committed.tracts) =>
          BulkUpdated(TRACTS[f.rows[j].tract], f.rows[j],
                      committed.tracts[f.rows[j].tract], committed.clock)

\* C14: after a bulk update, the record of every row that names a tract of
\* the store and holds numbers has the row's current_bid and max_budget, a
\* new last_updated, no approval, no requested budget, no requested unit and
\* no high-bidder flag.  Stated here of the bulk update of app.py.
C14_BulkUpdateClears ==
  frame.op = "apply_table_updates" =>
    \A j \in 1..Len(frame.rows) :
      AppliedRow(frame.rows, j, committed.tracts) =>
        BulkUpdated(TRACTS[frame.rows[j].tract], frame.rows[j],
                    committed.tracts[frame.rows[j].tract], committed.clock)

\* Thread t holds the result of a snapshot_state() call that has read every
\* record.
SnapshotTaken(t) ==
  /\ frame[t].snap # EmptySnapshot
  /\ frame[t].fn = "snapshot_state" => pc[t] \notin {"lock", "body"}

\* The number of mutations completed when that snapshot was taken.
SnapshotAt(t) ==
  IF Finishing(t, "snapshot_state") THEN version ELSE frame[t].snapVer

\* C15: no step of snapshot_state() changes a record, the key order or the
\* clock, and two snapshots with no mutation completed between them have the
\* same names in the same order and equal data for every name, timestamps
\* included.
C15_SnapshotReadOnly ==
  /\ [](\A t, u \in Threads :
          SnapshotTaken(t) /\ SnapshotTaken(u) /\ SnapshotAt(t) = SnapshotAt(u)
            => /\ frame[t].snap.keys = frame[u].snap.keys
               /\ \A n \in DOMAIN frame[t].snap.data :
                    frame[t].snap.data[n] = frame[u].snap.data[n])
  /\ [][\A t \in Threads :
          /\ frame[t].fn = "snapshot_state"
          /\ pc[t] \in {"lock", "body", "unlock"}
          /\ pc'[t] # pc[t] \/ frame'[t] # frame[t]
          => TRACTS' = TRACTS /\ TRACT_KEYS' = TRACT_KEYS /\ clock' = clock]_vars

\* Two threads hold snapshots of the same mutated store.
C15_Witness ==
  \E t, u \in Threads :
    /\ t # u
    /\ SnapshotTaken(t) /\ SnapshotTaken(u)
    /\ SnapshotAt(t) = SnapshotAt(u) /\ SnapshotAt(t) >= 1
    /\ frame[t].snap.data # Render(INITIAL_KEYS, INITIAL_STATE).data

\* The bar lengths a chart builder returned are percentages from 0.0 to 150.0.
ChartInRange(chart) ==
  /\ ~chart.raised
  /\ \A n \in DOMAIN chart.pct : chart.pct[n] >= 0 /\ chart.pct[n] <= PctCap

\* The chart builder of ui/charts.py does what C16 says, on every snapshot a
\* browser holds and on every store.
ChartInRange_state ==
  /\ ChartInRange(build_budget_progress(client_snapshot))
  /\ ChartInRange(build_budget_progress(Render(TRACT_KEYS, TRACTS)))
  /\ \A n \in DOMAIN TRACTS :
       safe_pct_of_budget(TRACTS[n].current_bid, 0) = 0

\* C16: the percent-of-budget computation of the chart raises no division
\* by zero and yields a value from 0.0 to 150.0 for every record.  Stated
\* here of the chart builder of app.py, run by refresh_view_only.
C16_PercentInRange ==
  frame.op = "refresh_view_only" => ChartInRange(frame.chart)

\* refresh_view_only of app.py has raised ZeroDivisionError.
ChartRaised_app == frame.op = "refresh_view_only" /\ frame.chart.raised

\* C17 as stated: a handler given an amount that is no number returns a
\* rejection and never calls a store operation.
C17_UnparsableNeverInvokes ==
  \A t \in Threads :
    frame[t].unparsable => frame[t].rejected /\ ~frame[t].mutated

\* C17, amended: given an amount that is no number, the bid-monitor submit,
\* the bidder request and the add-tract form return a rejection and call no
\* store operation; the approver takes the typed budget as not typed and
\* approves with the pending request of its snapshot whenever the tract is
\* over budget or has a request there; the table edit, unless it rejects the
\* batch for a budget that is not positive, calls apply_table_updates, which
\* leaves the record of a row with such a cell as it was.
C17_UnparsableHandled ==
  /\ [](\A t \in Threads :
          LET f == frame[t] IN
          f.unparsable =>
            /\ f.handler \in {"handle_monitor_submit", "handle_bidder_request"}
                 \/ f.trig = "admin-add-tract"
               => f.rejected /\ ~f.mutated /\ f.mutVer = 0 /\ pc[t] = "return"
            /\ f.trig = "admin-table" /\ ~f.rejected => f.mutated
            /\ Finishing(t, "apply_table_updates") =>
                 \A j \in 1..Len(f.rows) :
                   /\ Unparsable(f.rows[j].current_bid)
                        \/ Unparsable(f.rows[j].max_budget)
                   /\ f.rows[j].tract \in DOMAIN committed.tracts
                   /\ \A m \in 1..Len(f.rows) :
                        m # j => f.rows[m].tract # f.rows[j].tract
                   => TRACTS[f.rows[j].tract] = committed.tracts[f.rows[j].tract])
  /\ [][\A t \in Threads :
          /\ pc[t] = "idle" /\ pc'[t] # "idle"
          /\ frame'[t].handler = "update_single_approver"
          /\ frame'[t].unparsable /\ ~frame'[t].rejected
          => LET info == client_snapshot.data[frame'[t].tract] IN
             /\ frame'[t].mutated <=>
                  (info.current_bid > info.max_budget
                     \/ info.requested_budget # None)
             /\ frame'[t].mutated =>
                  frame'[t].new_budget = info.requested_budget]_vars

\* One thread has been rejected by the bid monitor for an amount that is no
\* number while the table edit of another, given a bid that is no number,
\* has run apply_table_updates.
C17_Witness ==
  \E t, u \in Threads :
    /\ frame[t].handler = "handle_monitor_submit"
    /\ frame[t].unparsable /\ frame[t].rejected /\ pc[t] = "return"
    /\ frame[u].unparsable /\ Finishing(u, "apply_table_updates")
    /\ TRACTS # committed.tracts

\* Every max_budget of `tracts` that `before` did not hold is above zero.
NewBudgetsPositive(tracts, before) ==
  \A n \in DOMAIN tracts :
    n \notin DOMAIN before \/ tracts[n].max_budget # before[n].max_budget
      => tracts[n].max_budget > 0

\* The admin handler of callbacks/server.py does what C18 says.
AdminBudgetPositive_state ==
  \A t \in Threads :
    /\ frame[t].handler = "handle_admin_actions"
    /\ Finishing(t, "add_tract") \/ Finishing(t, "apply_table_updates")
    => NewBudgetsPositive(TRACTS, committed.tracts)

\* C18: every max_budget written by the add-tract form or the table edit is
\* above zero.  Stated here of handle_admin_actions of app.py.
C18_AdminBudgetPositive ==
  frame.op \in {"add_tract", "apply_table_updates"} =>
    NewBudgetsPositive(TRACTS, committed.tracts)

\* C19: the current_bid of every record is at least zero.
C19_BidsNonNegative ==
  \A n \in DOMAIN TRACTS : TRACTS[n].current_bid >= 0

\* The sequence s is the beginning of the sequence r.
IsPrefix(s, r) == Len(s) <= Len(r) /\ SubSeq(r, 1, Len(s)) = s

\* C20: no step removes or moves a tract name: the names of the store
\* before a step are the beginning of its names after it.  So the seed names
\* stay first, in seed order, the names of every snapshot a thread or a
\* browser holds are the beginning of the names of the store, and of two
\* snapshots the names of the earlier are the beginning of the names of the
\* later.
C20_NamesOnlyAppended ==
  /\ [][IsPrefix(TRACT_KEYS, TRACT_KEYS')]_vars
  /\ [](/\ IsPrefix(INITIAL_KEYS, TRACT_KEYS)
        /\ TRACT_KEYS[1] = Tract1
        /\ DOMAIN TRACTS = {TRACT_KEYS[j] : j \in 1..Len(TRACT_KEYS)}
        /\ IsPrefix(client_snapshot.keys, TRACT_KEYS)
        /\ \A t \in Threads :
             SnapshotTaken(t) =>
               /\ IsPrefix(frame[t].snap.keys, TRACT_KEYS)
               /\ \A u \in Threads :
                    SnapshotTaken(u) /\ SnapshotAt(t) <= SnapshotAt(u) =>
                      IsPrefix(frame[t].snap.keys, frame[u].snap.keys))

\* A thread holds a snapshot taken before another thread's add_tract put a
\* new name into the store.
C20_Witness ==
  \E t, u \in Threads :
    /\ t # u
    /\ SnapshotTaken(t)
    /\ Len(frame[t].snap.keys) < Len(TRACT_KEYS)
    /\ frame[u].handler = "handle_admin_actions" /\ frame[u].created
    /\ SnapshotTaken(u) /\ SnapshotAt(t) < SnapshotAt(u)

\* C21: every read of the tract mapping, the listing of the tract names for
\* the dropdown options and the pick of the default tract included, holds
\* the store lock, so that the mapping a reader iterates is never changed by
\* another thread before the reader is done with it.
C21_ReadersExcludeWriters ==
  frame.reader.at \in {"iter", "value"} =>
    /\ STATE_LOCK # Free
    /\ TRACT_KEYS = frame.reader.keys

\* The outcome of the unlocked iteration in app.py that the lock prevents.
ReaderRaised_app == frame.reader.raised

\* C22: while a thread holds the store lock it only touches memory: no log
\* record is written to the stream and file handlers between the lock's
\* acquisition and its release.
C22_NoLoggingUnderLock ==
  \A t \in Threads : InCritical(t) => frame[t].logged = "none"

\* C23: approve_over_budget, request_budget_increase and set_high_bidder
\* leave every record's last_updated and current_bid as they were,
\* set_high_bidder changes nothing but high_bidder of the record it names,
\* and a step changes a record's last_updated only inside update_bid, a
\* row of apply_table_updates or add_tract (to the time of the call) or
\* inside reset_state (to the seed's timestamp).
C23_TimestampOwners ==
  /\ [](\A t \in Threads :
          /\ pc[t] = "unlock"
          /\ frame[t].fn \in {"approve_over_budget", "request_budget_increase",
                               "set_high_bidder"}
          => /\ DOMAIN TRACTS = DOMAIN committed.tracts
             /\ clock = committed.clock
             /\ \A n \in DOMAIN TRACTS :
                  /\ TRACTS[n].last_updated = committed.tracts[n].last_updated
                  /\ TRACTS[n].current_bid = committed.tracts[n].current_bid
                  /\ frame[t].fn = "set_high_bidder" =>
                       \E b \in BOOLEAN :
                         TRACTS[n] = [committed.tracts[n] EXCEPT
                                        !.high_bidder =
                                          IF n = frame[t].tract THEN b ELSE @])
  /\ [][\A n \in DOMAIN TRACTS' :
          (n \notin DOMAIN TRACTS
             \/ TRACTS'[n].last_updated # TRACTS[n].last_updated) =>
            \E t \in Threads :
              /\ STATE_LOCK = t
              /\ pc[t] = "body"
              /\ \/ /\ frame[t].fn \in {"update_bid", "apply_table_updates",
                                         "add_tract"}
                    /\ clock' = clock + 1
                    /\ TRACTS'[n].last_updated = clock'
                 \/ /\ frame[t].fn = "reset_state"
                    /\ TRACTS'[n].last_updated = INITIAL_STATE[n].last_updated]_vars

\* set_high_bidder has flipped the flag of a record that an earlier call had
\* stamped.
C23_Witness ==
  \E t \in Threads :
    /\ Finishing(t, "set_high_bidder")
    /\ frame[t].tract \in DOMAIN committed.tracts
    /\ TRACTS[frame[t].tract].high_bidder
          # committed.tracts[frame[t].tract].high_bidder
    /\ TRACTS[frame[t].tract].last_updated > SeedClock

\* C24: the browser's snapshot-store changes only when a poll responds, and
\* then it becomes the snapshot that poll took, whatever became of the
\* pushes; if no mutation has completed since the poll read the store, the
\* browser's data is the rendering of the store as the last critical section
\* left it, which is the store itself while no thread is inside one.
C24_PollConverges ==
  [][/\ client_snapshot' # client_snapshot =>
          \E t \in Threads :
            /\ pc[t] = "return" /\ pc'[t] = "idle"
            /\ frame[t].handler = "update_snapshot_store"
     /\ \A t \in Threads :
          /\ pc[t] = "return" /\ pc'[t] = "idle"
          /\ frame[t].handler = "update_snapshot_store"
          => /\ client_snapshot' = frame[t].snap
             /\ frame[t].snapVer = version =>
                  /\ client_snapshot' =
                       Render(committed.keys, committed.tracts)
                  /\ (\A u \in Threads : ~InCritical(u)) =>
                       client_snapshot' = Render(TRACT_KEYS', TRACTS')]_vars

\* A poll is about to hand the browser a store that a handler changed and
\* whose push failed.
C24_Witness ==
  \E t, u \in Threads :
    /\ pc[t] = "return"
    /\ frame[t].handler = "update_snapshot_store"
    /\ frame[t].snapVer = version
    /\ frame[t].snap # client_snapshot
    /\ pc[u] = "return" /\ frame[u].emit_failed

\* C25: when the threads call update_bid concurrently, each on an existing
\* tract of its own with its own amount, then once all have returned each
\* tract named has its caller's amount as current_bid, with the fields
\* update_bid clears cleared, its budget untouched and a timestamp of its own
\* call, and every tract no caller named is as it was.
C25_ConcurrentBidsIndependent ==
  (\A t \in Threads : pc[t] = "return") =>
    /\ DOMAIN TRACTS = DOMAIN INITIAL_STATE
    /\ TRACT_KEYS = INITIAL_KEYS
    /\ \A t \in Threads :
         \E now \in SeedClock + 1 .. SeedClock + Cardinality(Threads) :
           TRACTS[frame[t].tract] =
             [current_bid |-> frame[t].amount,
              max_budget |-> INITIAL_STATE[frame[t].tract].max_budget,
              approved_over_budget |-> FALSE, requested_budget |-> None,
              requested_unit |-> None, high_bidder |-> FALSE,
              last_updated |-> now]
    /\ \A n \in DOMAIN TRACTS :
         (\A t \in Threads : frame[t].tract # n) => TRACTS[n] = INITIAL_STATE[n]

\* All callers have returned, with different amounts, and the caller that
\* came second took the lock first.
C25_Witness ==
  /\ \A t \in Threads : pc[t] = "return"
  /\ \E t, u \in Threads :
       /\ t < u
       /\ frame[t].amount # frame[u].amount
       /\ TRACTS[frame[u].tract].last_updated
            < TRACTS[frame[t].tract].last_updated

\* C26: while reset_state or apply_table_updates is inside its loop no other
\* thread is inside snapshot_state(), and a snapshot taken with a reset as
\* the last completed mutation shows every seed tract restored, one taken
\* with a bulk update as the last completed mutation shows every applied row
\* applied: a snapshot never holds part of a reset or of a batch.
C26_BulkNeverPartial ==
  \A t, u \in Threads :
    /\ /\ t # u
       /\ frame[u].fn \in {"reset_state", "apply_table_updates"}
       /\ InCritical(u)
       => ~InCritical(t)
    /\ /\ SnapshotTaken(t)
       /\ frame[u].handler = "handle_admin_actions"
       /\ frame[u].mutVer > 0
       /\ frame[u].mutVer = SnapshotAt(t)
       => LET data == frame[t].snap.data IN
          /\ frame[u].trig = "admin-reset" =>
               \A n \in DOMAIN INITIAL_STATE :
                 data[n] = RenderRecord(INITIAL_STATE[n])
          /\ frame[u].trig = "admin-table" =>
               \A j \in 1..Len(frame[u].rows) :
                 LET row == frame[u].rows[j] IN
                 AppliedRow(frame[u].rows, j, data) =>
                   /\ data[row.tract].current_bid
                        = CellValue(row.current_bid, data[row.tract].current_bid)
                   /\ data[row.tract].max_budget
                        = CellValue(row.max_budget, data[row.tract].max_budget)

\* A handler that changed two seed tracts takes its snapshot right after
\* another thread's reset.
C26_Witness ==
  \E t, u \in Threads :
    /\ t # u
    /\ Finishing(t, "snapshot_state")
    /\ frame[t].trig = "admin-table" /\ Len(frame[t].rows) > 1
    /\ frame[t].mutVer = 1
    /\ frame[u].trig = "admin-reset" /\ frame[u].mutVer = 2
    /\ version = 2

\* C27: approve_over_budget called by the approver's handler writes the
\* approval only to a record that, in the store at that moment, is over its
\* budget or has a request pending, whatever other handlers did since the
\* approver's browser last received a snapshot.
C27_ApprovalOnlyWhenDue ==
  \A t \in Threads :
    /\ Finishing(t, "approve_over_budget")
    /\ frame[t].handler = "update_single_approver"
    /\ frame[t].tract \in DOMAIN committed.tracts
    => LET stored == committed.tracts[frame[t].tract] IN
       \/ stored.current_bid > stored.max_budget
       \/ stored.requested_budget # None

\* A record with an approval has no request pending, and one with a
\* request's unit has the request's amount.
RequestWellFormed(rec) ==
  /\ rec.approved_over_budget => rec.requested_budget = None
  /\ rec.requested_unit # None => rec.requested_budget # None

\* C28: in every store a critical section leaves, and so in every store
\* another thread can read, each record with approved_over_budget = true has
\* requested_budget = null, and requested_unit is non-null only where
\* requested_budget is non-null.
C28_ApprovalExcludesRequest ==
  /\ \A n \in DOMAIN committed.tracts : RequestWellFormed(committed.tracts[n])
  /\ (\A t \in Threads : pc[t] # "body") =>
       \A n \in DOMAIN TRACTS : RequestWellFormed(TRACTS[n])

\* An approval is about to be committed on a record whose pending request
\* had a unit.
C28_Witness ==
  \E t \in Threads :
    /\ Finishing(t, "approve_over_budget")
    /\ frame[t].tract \in DOMAIN committed.tracts
    /\ committed.tracts[frame[t].tract].requested_unit # None
    /\ TRACTS[frame[t].tract].approved_over_budget

\* C29: an approval does not survive a change of the bid: when update_bid,
\* a bulk update or reset_state has run, the record update_bid named, the
\* record of every applied row and every seed record have
\* approved_over_budget = false, and a record's approved_over_budget turns
\* true only in a step of approve_over_budget on that record; so a record
\* that is approved has not been touched by the three since its last
\* approval.
C29_ApprovalDiesWithBid ==
  /\ [](\A t \in Threads :
          LET f == frame[t] IN
          pc[t] = "unlock" =>
            /\ f.fn = "update_bid" /\ f.tract \in DOMAIN TRACTS =>
                 ~TRACTS[f.tract].approved_over_budget
            /\ f.fn = "apply_table_updates" =>
                 \A j \in 1..Len(f.rows) :
                   AppliedRow(f.rows, j, committed.tracts) =>
                     ~TRACTS[f.rows[j].tract].approved_over_budget
            /\ f.fn = "reset_state" =>
                 \A n \in DOMAIN INITIAL_STATE :
                   ~TRACTS[n].approved_over_budget)
  /\ [][\A n \in DOMAIN TRACTS' :
          /\ TRACTS'[n].approved_over_budget
          /\ n \in DOMAIN TRACTS => ~TRACTS[n].approved_over_budget
          => \E t \in Threads :
               /\ STATE_LOCK = t /\ pc[t] = "body"
               /\ frame[t].fn = "approve_over_budget"
               /\ frame[t].tract = n]_vars

\* reset_state has run on a store that held an approved record.
C29_Witness ==
  \E t \in Threads :
    /\ Finishing(t, "reset_state")
    /\ \E n \in DOMAIN INITIAL_STATE : committed.tracts[n].approved_over_budget

\* C30: payloads are emitted in the order their snapshots were taken: a
\* handler about to emit never holds a snapshot older than one another
\* handler has emitted already, and when it is the only handler that has yet
\* to emit, the payload it emits, the last one, is the rendering of the
\* store.
C30_EmitsInSnapshotOrder ==
  \A t \in Threads :
    pc[t] = "emit" =>
      /\ \A u \in Threads :
           pc[u] = "return" /\ frame[u].stage = "emitted" =>
             frame[u].snapVer <= frame[t].snapVer \/ frame[u].snap = frame[t].snap
      /\ (\A u \in Threads \ {t} : pc[u] \in {"idle", "return"}) =>
           frame[t].snap = Render(TRACT_KEYS, TRACTS)
====
